---- MODULE Spec2Model ----
(***************************************************************************)
(* Model of src/index.py: the dashboard's ingestion (load_data) and its    *)
(* refresh callback (line_graph_1).                                        *)
(*                                                                         *)
(* A DataFrame is a record [rows, cols, typed]: rows is the sequence of    *)
(* records (each a record over the columns), cols the set of column names  *)
(* present and typed says whether lines 43-52 have coerced the dtypes.     *)
(* Text that the code splits (recursos_empenhados) is a sequence of        *)
(* one-character strings; Python's None / pandas' NaN / NaT are the        *)
(* markers NaN, NoneStr and NaT.  Dates are day ordinals.  The columns     *)
(* tipo_classificacao, latitude, longitude and local_fato carry no logic   *)
(* of the pipeline and are left out.  Non-ASCII label text is written in   *)
(* ASCII ("1oCOB" for "1ºCOB", "-" for the em dash sentinel).              *)
(***************************************************************************)
EXTENDS Integers, Sequences, FiniteSets, TLC

VARIABLES df, cobs, data_loaded, pc, args, response, df_filtered, out

vars == <<df, cobs, data_loaded, pc, args, response, df_filtered, out>>

\* ------------------------------------------------------------- bounds
MaxRows == 2
MaxDay == 2
NumWorkers == 2

\* ------------------------------------------------------------ markers
\* pandas' NaN in a text / categorical column (JSON null, or an unmapped code)
NaN == "<NaN>"
\* Python's None in recursos_empenhados (JSON null), as a text value
NoneStr == <<"<None>">>
\* pandas' NaT in the data column; also "no date" (None) in the callback's inputs
NaT == 0
\* "no DataFrame yet" for a callback's local df_filtered
NoTable == [rows |-> <<>>, cols |-> {}, typed |-> FALSE]

\* ----------------------------------------------------- text splitting
SEP == <<" ", "/", " ">>

RECURSIVE SplitFrom(_, _, _, _)
SplitFrom(s, sep, i, cur) ==
    IF i > Len(s) THEN <<cur>>
    ELSE IF i + Len(sep) - 1 <= Len(s) /\ SubSeq(s, i, i + Len(sep) - 1) = sep
         THEN <<cur>> \o SplitFrom(s, sep, i + Len(sep), <<>>)
         ELSE SplitFrom(s, sep, i + 1, Append(cur, s[i]))

\* str.split(sep): the pieces between non-overlapping occurrences of sep,
\* scanning left to right; the empty text gives one empty piece
split(s, sep) == SplitFrom(s, sep, 1, <<>>)

Range(f) == {f[i] : i \in DOMAIN f}

\* lines 22-23: len(set(linha.split(' / ')))
calcular_total_vtr(linha) == Cardinality(Range(split(linha, SEP)))

\* ------------------------------------------------------------ legends
cob_legend ==
    [c \in {"1COB", "2COB", "3COB", "4COB", "5COB", "6COB"} |->
        CASE c = "1COB" -> "1oCOB - RMBH/Divinoplis"
          [] c = "2COB" -> "2oCOB - Uberlandia"
          [] c = "3COB" -> "3oCOB - Juiz de Fora"
          [] c = "4COB" -> "4oCOB - Montes Claros"
          [] c = "5COB" -> "5oCOB - Governador Valadares"
          [] c = "6COB" -> "6oCOB - Varginha"]

priori_legend ==
    [p \in {"1", "2", "3"} |->
        CASE p = "1" -> "Prioridade 1 - Alta"
          [] p = "2" -> "Prioridade 2 - Media"
          [] p = "3" -> "Prioridade 3 - Baixa"]

\* Series.map(dict): a value that is no key of the dict (NaN included) gives NaN
map(legend, code) == IF code \in DOMAIN legend THEN legend[code] ELSE NaN

\* ------------------------------------------------------- upstream data
RES_AB == <<"A", " ", "/", " ", "B">>
RES_BC == <<"B", " ", "/", " ", "C">>
RES_AAB == <<"A", " ", "/", " ", "A", " ", "/", " ", "B">>
RES_V1V1 == <<"V", "1", " ", "/", " ", "V", "1">>
RES_EMPTY == <<>>

RawRow(nat, pri, cob, uni, mun, dia, rec) ==
    [Natureza |-> nat, Prioridade |-> pri, COB |-> cob, UNIDADE |-> uni,
     municipio |-> mun, data |-> dia, recursos_empenhados |-> rec]

\* the records the upstream service may hold: known and unknown codes, a null
\* date, a null COB and municipio, an empty and a null resource list
ROW_1 == RawRow("Incendio", "1", "1COB", "1BBM", "Belo Horizonte", 1, RES_AB)
ROW_2 == RawRow("Resgate",  "2", "2COB", "2BBM", "Uberlandia",     2, RES_BC)
ROW_3 == RawRow("Incendio", "3", "9COB", "2BBM", "Belo Horizonte", MaxDay, RES_AAB)
ROW_4 == RawRow("Resgate",  "1", "9COB", "1BBM", "Uberlandia",     2, RES_V1V1)
ROW_5 == RawRow("Incendio", "2", "2COB", "1BBM", "Belo Horizonte", NaT, RES_EMPTY)
ROW_6 == RawRow("Resgate",  "4", NaN,    "2BBM", NaN,              1, RES_AB)
ROW_7 == RawRow("Resgate",  "3", "3COB", "2BBM", "Belo Horizonte", 1, NoneStr)

UpstreamRows == {ROW_1, ROW_2, ROW_3, ROW_4, ROW_5, ROW_6, ROW_7}

Bodies == UNION {[1..n -> UpstreamRows] : n \in 0..MaxRows}

\* what requests.get(...) / response.json() yield
Responses ==
    [kind : {"ok"}, body : Bodies]
      \cup [kind : {"network_error", "http_500", "malformed_body"}, body : {<<>>}]

\* the dropdown's value (line 227): None, or a list of labels (possibly empty)
CobSelections ==
    { [isNone |-> TRUE,  vals |-> {}],
      [isNone |-> FALSE, vals |-> {}],
      [isNone |-> FALSE, vals |-> {cob_legend["1COB"]}],
      [isNone |-> FALSE, vals |-> {cob_legend["2COB"]}] }

\* start_date, end_date and cobs as Dash passes them; a date is None (NaT) or a day
FilterStates == [start_date : 0..MaxDay, end_date : 0..MaxDay, cobs : CobSelections]

\* ---------------------------------------------------------- DataFrames
RawCols ==
    {"Natureza", "Prioridade", "COB", "UNIDADE", "municipio", "data",
     "recursos_empenhados"}

categorical_columns == {"Natureza", "Prioridade", "COB", "UNIDADE", "municipio"}

\* pd.DataFrame(response.json()): a list of records; the empty list has no columns
DataFrame(body) ==
    [rows |-> body, cols |-> IF body = <<>> THEN {} ELSE RawCols, typed |-> FALSE]

\* df[name] = vals: adds or overwrites a column, in place (vals[i] is row i's value)
SetCol(tbl, name, vals) ==
    [tbl EXCEPT
        !.rows = [i \in DOMAIN tbl.rows |->
                    [c \in DOMAIN tbl.rows[i] \cup {name} |->
                        IF c = name THEN vals[i] ELSE tbl.rows[i][c]]],
        !.cols = @ \cup {name}]

RECURSIVE TakeFrom(_, _, _)
TakeFrom(rows, keep, i) ==
    IF i > Len(rows) THEN <<>>
    ELSE (IF i \in keep THEN <<rows[i]>> ELSE <<>>) \o TakeFrom(rows, keep, i + 1)

\* df.loc[mask] / df[mask]: the rows the mask keeps, in their order
loc(tbl, keep) == [tbl EXCEPT !.rows = TakeFrom(tbl.rows, keep, 1)]

\* (df["data"] >= start_date) & (df["data"] <= end_date) on a datetime column:
\* NaT compares False with everything
DateMask(tbl, start_date, end_date) ==
    {i \in DOMAIN tbl.rows :
        /\ tbl.rows[i].data # NaT
        /\ tbl.rows[i].data >= start_date
        /\ tbl.rows[i].data <= end_date}

\* The masks the comparison can give.  On a column not yet converted by
\* line 52 the comparison is between texts of different layouts
\* ('DD/MM/YYYY' against 'YYYY-MM-DD'): its outcome is not modelled, any mask
\* may result.
DateMasks(tbl, start_date, end_date) ==
    IF tbl.typed THEN {DateMask(tbl, start_date, end_date)}
    ELSE SUBSET DOMAIN tbl.rows

\* comparing a datetime column with None raises TypeError
DateMaskRaises(tbl, start_date, end_date) ==
    tbl.typed /\ (start_date = NaT \/ end_date = NaT)

\* df["COB_nome"].isin(cobs)
IsinMask(tbl, sel) == {i \in DOMAIN tbl.rows : tbl.rows[i].COB_nome \in sel}

\* Python truthiness of the inputs: None and the empty list are false
Truthy(sel) == ~sel.isNone /\ sel.vals # {}

\* ------------------------------------------------------------ grouping
\* every text a grouping key can be, in Python's sort order (code points)
SortedKeys ==
    << "1BBM", "1oCOB - RMBH/Divinoplis", "2BBM", "2oCOB - Uberlandia",
       "3oCOB - Juiz de Fora", "4oCOB - Montes Claros",
       "5oCOB - Governador Valadares", "6oCOB - Varginha",
       "Belo Horizonte", "Incendio",
       "Prioridade 1 - Alta", "Prioridade 2 - Media", "Prioridade 3 - Baixa",
       "Resgate", "Uberlandia" >>

HasKey(rows, col, k) == \E i \in DOMAIN rows : rows[i][col] = k

\* the groups of groupby(col, observed=True), in iteration order: the keys
\* present among the rows, sorted; rows whose key is NaN belong to no group
GroupKeys(rows, col) == SelectSeq(SortedKeys, LAMBDA k : HasKey(rows, col, k))

RECURSIVE SumSeq(_)
SumSeq(s) == IF s = <<>> THEN 0 ELSE Head(s) + SumSeq(Tail(s))

\* groupby(col).size()
GroupSize(rows, col) ==
    LET keys == GroupKeys(rows, col)
    IN  [j \in DOMAIN keys |->
            [key |-> keys[j],
             val |-> Cardinality({i \in DOMAIN rows : rows[i][col] = keys[j]})]]

\* groupby(col)["total_vtr"].sum()
GroupSumVtr(rows, col) ==
    LET keys == GroupKeys(rows, col)
    IN  [j \in DOMAIN keys |->
            [key |-> keys[j],
             val |-> SumSeq([i \in DOMAIN rows |->
                              IF rows[i][col] = keys[j] THEN rows[i].total_vtr ELSE 0])]]

\* Series.idxmax(): the first position holding the maximum
idxmax(groups) ==
    CHOOSE j \in DOMAIN groups :
        /\ \A k \in DOMAIN groups : groups[k].val <= groups[j].val
        /\ \A k \in DOMAIN groups : k < j => groups[k].val < groups[j].val

\* Series.mean(), kept as the fraction sum / count
mean(groups) ==
    [num |-> SumSeq([j \in DOMAIN groups |-> groups[j].val]), den |-> Len(groups)]

\* the leader row and the mean of a grouped metric (lines 296-297, 301-302,
\* 321-322, 418-419); idxmax of no groups raises ValueError
Leader(groups) ==
    [leader |-> groups[idxmax(groups)].key,
     value  |-> groups[idxmax(groups)].val,
     mean   |-> mean(groups)]

\* lines 290-292 and 315-317
Sentinel == [leader |-> "-", value |-> 0, mean |-> [num |-> 0, den |-> 1]]

\* df_filtered[df_filtered["Prioridade"] == "1"]
PriorityOne(rows) == SelectSeq(rows, LAMBDA r : r.Prioridade = "1")

\* lines 281-292 and 306-317: priority-1 rows grouped by col, with the sentinel
\* when the grouping is empty or sums to 0
LeaderPriorityOne(rows, col) ==
    LET g == GroupSize(PriorityOne(rows), col)
    IN  IF g # <<>> /\ SumSeq([j \in DOMAIN g |-> g[j].val]) > 0
        THEN Leader(g) ELSE Sentinel

\* mutant: the tokens of each row counted separately and added up
total_recursos_sum(rows) ==
    SumSeq([i \in DOMAIN rows |->
              Cardinality(Range(split(rows[i].recursos_empenhados, SEP)))])

\* lines 338-342: the size of the union of every row's tokens
total_recursos_unicos(rows) ==
    Cardinality(UNION {Range(split(rows[i].recursos_empenhados, SEP)) :
                          i \in DOMAIN rows})

\* groupby([c1, c2], observed=True).size(): the count of each observed pair
PairCounts(rows, c1, c2) ==
    LET pairs == {<<rows[i][c1], rows[i][c2]>> : i \in
                    {i \in DOMAIN rows : rows[i][c1] # NaN /\ rows[i][c2] # NaN}}
    IN  [p \in pairs |->
            Cardinality({i \in DOMAIN rows : <<rows[i][c1], rows[i][c2]>> = p})]

\* groupby(c, observed=True).size() as a breakdown
Counts(rows, c) ==
    [k \in {rows[i][c] : i \in DOMAIN rows} \ {NaN} |->
        Cardinality({i \in DOMAIN rows : rows[i][c] = k})]

\* ------------------------------------------------- load_data's stages
\* lines 43-52: astype("category"), astype("float32"), to_datetime
Coerce(tbl) == [tbl EXCEPT !.typed = TRUE]

\* line 63: df['COB_nome'] = df['COB'].map(cob_legend)
WithCOBnome(tbl) ==
    SetCol(tbl, "COB_nome", [i \in DOMAIN tbl.rows |-> map(cob_legend, tbl.rows[i].COB)])

\* line 70: df['Prioridade_nome'] = df['Prioridade'].map(priori_legend)
WithPrioridadeNome(tbl) ==
    SetCol(tbl, "Prioridade_nome",
           [i \in DOMAIN tbl.rows |-> map(priori_legend, tbl.rows[i].Prioridade)])

\* line 73: df['total_vtr'] = df['recursos_empenhados'].apply(calcular_total_vtr)
WithTotalVtr(tbl) ==
    SetCol(tbl, "total_vtr",
           [i \in DOMAIN tbl.rows |->
               calcular_total_vtr(tbl.rows[i].recursos_empenhados)])

\* None.split(' / ') raises AttributeError
HasNoneResource(tbl) ==
    \E i \in DOMAIN tbl.rows : tbl.rows[i].recursos_empenhados = NoneStr

\* line 76: sorted(df["COB_nome"].dropna().astype(str).unique())
SortedCobs(tbl) == SelectSeq(SortedKeys, LAMBDA k : HasKey(tbl.rows, "COB_nome", k))

\* a whole run of lines 40-73 over one response body
Normalized(body) ==
    WithTotalVtr(WithPrioridadeNome(WithCOBnome(Coerce(DataFrame(body)))))

\* the bodies over which the import-time load_data() of line 82 and the
\* data_min / data_max of lines 85-86 succeed, so that the server starts
Startable(body) ==
    /\ body # <<>>
    /\ \A i \in DOMAIN body : body[i].recursos_empenhados # NoneStr
    /\ \E i \in DOMAIN body : body[i].data # NaT

\* the callback calls load_data(True) (line 236)
force_reload == TRUE

NoArgs == [start_date |-> NaT, end_date |-> NaT, cobs |-> [isNone |-> TRUE, vals |-> {}]]
NoOut == [exc |-> "", line |-> 0, ret |-> <<>>]
\* load_data's local response (line 38) before requests.get(...) has returned
NoResponse == [kind |-> "none", body |-> <<>>]

\* go.Figure().update_layout(title="Erro: ...") of line 263
ErrorFigure == "Erro: Coluna 'COB_nome' nao encontrada."

\* ------------------------------------------------------------- states
InitWith(workers, bodies) ==
    /\ \E body \in {b \in bodies : Startable(b)} :
          /\ df = Normalized(body)
          /\ cobs = SortedCobs(Normalized(body))
    /\ data_loaded = TRUE
    /\ pc = [t \in workers |-> "idle"]
    /\ args = [t \in workers |-> NoArgs]
    /\ response = [t \in workers |-> NoResponse]
    /\ df_filtered = [t \in workers |-> NoTable]
    /\ out = [t \in workers |-> NoOut]

\* an exception leaves the callback (and load_data) at once
\* (line is the source line that raises)
Raise(t, e, line) ==
    /\ pc' = [pc EXCEPT ![t] = "raised"]
    /\ out' = [out EXCEPT ![t].exc = e, ![t].line = line]

Goto(t, label) == pc' = [pc EXCEPT ![t] = label]

\* Dash invokes line_graph_1 with the current inputs (timer tick or filter change)
Invoke(t, filters) ==
    /\ pc[t] = "idle"
    /\ \E f \in filters : args' = [args EXCEPT ![t] = f]
    /\ Goto(t, "load_fetch")
    /\ UNCHANGED <<df, cobs, data_loaded, df_filtered, out, response>>

\* lines 31-40: the fetch and df = pd.DataFrame(response.json()).  A network
\* error, an undecodable body and a body that is no list of records raise
\* before df is assigned.
LoadFetch(t, responses) ==
    /\ pc[t] = "load_fetch"
    /\ IF force_reload \/ ~data_loaded
       THEN \E resp \in responses :
              /\ response' = [response EXCEPT ![t] = resp]
              /\ IF resp.kind # "ok"
                 THEN Raise(t, resp.kind, IF resp.kind = "network_error" THEN 38 ELSE 40) /\ UNCHANGED df
                 ELSE /\ df' = DataFrame(resp.body)
                      /\ Goto(t, "load_coerce")
                      /\ UNCHANGED out
       ELSE Goto(t, "copy1") /\ UNCHANGED <<df, out, response>>
    /\ UNCHANGED <<cobs, data_loaded, args, df_filtered>>

\* lines 43-52, on the table the global df names now
LoadCoerce(t) ==
    /\ pc[t] = "load_coerce"
    /\ IF ~(categorical_columns \cup {"data"} \subseteq df.cols)
       THEN Raise(t, "KeyError", 45) /\ UNCHANGED df
       ELSE df' = Coerce(df) /\ Goto(t, "load_cob") /\ UNCHANGED out
    /\ UNCHANGED <<cobs, data_loaded, args, df_filtered, response>>

\* lines 54-63
LoadMapCOB(t) ==
    /\ pc[t] = "load_cob"
    /\ IF "COB" \notin df.cols
       THEN Raise(t, "KeyError", 63) /\ UNCHANGED df
       ELSE df' = WithCOBnome(df) /\ Goto(t, "load_prio") /\ UNCHANGED out
    /\ UNCHANGED <<cobs, data_loaded, args, df_filtered, response>>

\* lines 65-70
LoadMapPrioridade(t) ==
    /\ pc[t] = "load_prio"
    /\ IF "Prioridade" \notin df.cols
       THEN Raise(t, "KeyError", 70) /\ UNCHANGED df
       ELSE df' = WithPrioridadeNome(df) /\ Goto(t, "load_vtr") /\ UNCHANGED out
    /\ UNCHANGED <<cobs, data_loaded, args, df_filtered, response>>

\* lines 72-73
LoadTotalVtr(t) ==
    /\ pc[t] = "load_vtr"
    /\ IF "recursos_empenhados" \notin df.cols
       THEN Raise(t, "KeyError", 73) /\ UNCHANGED df
       ELSE IF HasNoneResource(df)
       THEN Raise(t, "AttributeError", 73) /\ UNCHANGED df
       ELSE df' = WithTotalVtr(df) /\ Goto(t, "load_end") /\ UNCHANGED out
    /\ UNCHANGED <<cobs, data_loaded, args, df_filtered, response>>

\* lines 75-79
LoadFinish(t) ==
    /\ pc[t] = "load_end"
    /\ IF "COB_nome" \notin df.cols
       THEN Raise(t, "KeyError", 76) /\ UNCHANGED <<cobs, data_loaded>>
       ELSE /\ cobs' = SortedCobs(df)
            /\ data_loaded' = TRUE
            /\ Goto(t, "copy1")
            /\ UNCHANGED out
    /\ UNCHANGED <<df, args, df_filtered, response>>

\* --------------------------------------------- line_graph_1, after load
\* lines 238-263: the first copy and filter pass, whose table line 268 discards
Copy1Filter(t) ==
    /\ pc[t] = "copy1"
    /\ LET a == args[t]
           both == a.start_date # NaT /\ a.end_date # NaT
       IN  IF both /\ "data" \notin df.cols
           THEN Raise(t, "KeyError", 243) /\ UNCHANGED df_filtered
           ELSE \E m \in (IF both THEN DateMasks(df, a.start_date, a.end_date)
                                  ELSE {DOMAIN df.rows}) :
                  LET c1 == loc(df, m)
                  IN  IF "COB_nome" \notin c1.cols /\ "COB" \notin c1.cols
                      THEN Raise(t, "KeyError", 248) /\ UNCHANGED df_filtered
                      ELSE LET c2 == IF "COB_nome" \notin c1.cols
                                     THEN WithCOBnome(c1) ELSE c1
                               c3 == IF Truthy(a.cobs)
                                     THEN loc(c2, IsinMask(c2, a.cobs.vals)) ELSE c2
                           IN  /\ df_filtered' = [df_filtered EXCEPT ![t] = c3]
                               /\ IF "COB_nome" \notin c3.cols
                                  THEN /\ Goto(t, "returned")
                                       /\ out' = [out EXCEPT ![t].ret =
                                                    [k \in 1..12 |-> ErrorFigure]]
                                  ELSE Goto(t, "copy2") /\ UNCHANGED out
    /\ UNCHANGED <<df, cobs, data_loaded, args, response>>

\* lines 267-276 on the callback's own variables
Copy2Local(t) ==
    /\ pc[t] = "copy2"
    /\ LET a == args[t]
       IN  IF "data" \notin df.cols
           THEN Raise(t, "KeyError", 269) /\ UNCHANGED df_filtered
           ELSE IF DateMaskRaises(df, a.start_date, a.end_date)
           THEN Raise(t, "TypeError", 269) /\ UNCHANGED df_filtered
           ELSE \E m \in DateMasks(df, a.start_date, a.end_date) :
                  LET c1 == loc(df, m)
                  IN  IF Truthy(a.cobs) /\ "COB_nome" \notin c1.cols
                      THEN Raise(t, "KeyError", 276) /\ UNCHANGED df_filtered
                      ELSE /\ df_filtered' =
                                [df_filtered EXCEPT ![t] =
                                    IF Truthy(a.cobs)
                                    THEN loc(c1, IsinMask(c1, a.cobs.vals)) ELSE c1]
                           /\ Goto(t, "agg_a")
                           /\ UNCHANGED out

\* mutant: the filter pass writes its result back to the global table
Copy2FilterInPlace(t) ==
    /\ Copy2Local(t)
    /\ df' = df_filtered'[t]
    /\ UNCHANGED <<cobs, data_loaded, args, response>>

\* lines 267-276: the second copy of df and the filter pass the indicators use
Copy2Filter(t) ==
    /\ Copy2Local(t)
    /\ UNCHANGED <<df, cobs, data_loaded, args, response>>

\* lines 278-322: indicators 1 to 5 over df_filtered
AggregateA(t) ==
    /\ pc[t] = "agg_a"
    /\ LET tbl == df_filtered[t]
           rows == tbl.rows
       IN  IF ~({"Prioridade", "COB_nome"} \subseteq tbl.cols)
           THEN Raise(t, "KeyError", 281)
           ELSE IF "municipio" \notin tbl.cols
           THEN Raise(t, "KeyError", 295)
           ELSE IF GroupKeys(rows, "municipio") = <<>>
           THEN Raise(t, "ValueError", 296)
           ELSE IF "UNIDADE" \notin tbl.cols
           THEN Raise(t, "KeyError", 300)
           ELSE IF GroupKeys(rows, "UNIDADE") = <<>>
           THEN Raise(t, "ValueError", 301)
           ELSE IF "total_vtr" \notin tbl.cols
           THEN Raise(t, "KeyError", 320)
           ELSE /\ out' = [out EXCEPT ![t] =
                    [i1 |-> LeaderPriorityOne(rows, "COB_nome"),
                     i2 |-> Leader(GroupSize(rows, "municipio")),
                     i3 |-> Leader(GroupSize(rows, "UNIDADE")),
                     i4 |-> LeaderPriorityOne(rows, "UNIDADE"),
                     i5 |-> Leader(GroupSumVtr(rows, "UNIDADE"))] @@ out[t]]
                /\ Goto(t, "expand")
    /\ UNCHANGED <<df, cobs, data_loaded, args, df_filtered, response>>

\* lines 324-334: the loop over the rows of the global df (df_recursos is not
\* used afterwards)
ExpandRecursos(t) ==
    /\ pc[t] = "expand"
    /\ IF df.rows # <<>> /\ "recursos_empenhados" \notin df.cols
       THEN Raise(t, "KeyError", 327)
       ELSE IF HasNoneResource(df)
       THEN Raise(t, "AttributeError", 327)
       ELSE Goto(t, "agg_b") /\ UNCHANGED out
    /\ UNCHANGED <<df, cobs, data_loaded, args, df_filtered, response>>

\* lines 337-501: indicators 8, 7 and 6, the three breakdowns and the return
AggregateB(t) ==
    /\ pc[t] = "agg_b"
    /\ LET tbl == df_filtered[t]
           rows == tbl.rows
       IN  IF "recursos_empenhados" \notin tbl.cols
           THEN Raise(t, "KeyError", 339)
           ELSE IF HasNoneResource(tbl)
           THEN Raise(t, "TypeError", 339)
           ELSE IF "Natureza" \notin tbl.cols
           THEN Raise(t, "KeyError", 417)
           ELSE IF GroupKeys(rows, "Natureza") = <<>>
           THEN Raise(t, "ValueError", 418)
           ELSE IF ~({"COB_nome", "Prioridade_nome"} \subseteq tbl.cols)
           THEN Raise(t, "KeyError", 460)
           ELSE LET i6 == Leader(GroupSize(rows, "Natureza"))
                    i7 == Len(rows)
                    i8 == total_recursos_unicos(rows)
                    bA == PairCounts(rows, "COB_nome", "Prioridade_nome")
                    bB == Counts(rows, "Prioridade_nome")
                    bC == PairCounts(rows, "Natureza", "COB_nome")
                    o  == out[t]
                IN  /\ out' = [out EXCEPT ![t] =
                          [i6 |-> i6, i7 |-> i7, i8 |-> i8,
                           ret |-> <<o.i1, o.i2, o.i3, o.i4, o.i5, i6, i7, i8,
                                     bA, bB, bC>>] @@ o]
                    /\ Goto(t, "returned")
    /\ UNCHANGED <<df, cobs, data_loaded, args, df_filtered, response>>

\* the request ends (its figures or its exception go to Dash); the worker is free
Done(t) ==
    /\ pc[t] \in {"returned", "raised"}
    /\ Goto(t, "idle")
    /\ args' = [args EXCEPT ![t] = NoArgs]
    /\ df_filtered' = [df_filtered EXCEPT ![t] = NoTable]
    /\ out' = [out EXCEPT ![t] = NoOut]
    /\ response' = [response EXCEPT ![t] = NoResponse]
    /\ UNCHANGED <<df, cobs, data_loaded>>

\* ----------------------------------------------------- specifications
\* one refresh at a time: each callback runs to its end before the next starts
Init == InitWith(1..1, Bodies)

Next ==
    \/ \E t \in DOMAIN pc : Invoke(t, FilterStates)
    \/ \E t \in DOMAIN pc : LoadFetch(t, Responses)
    \/ \E t \in DOMAIN pc : LoadCoerce(t)
    \/ \E t \in DOMAIN pc : LoadMapCOB(t)
    \/ \E t \in DOMAIN pc : LoadMapPrioridade(t)
    \/ \E t \in DOMAIN pc : LoadTotalVtr(t)
    \/ \E t \in DOMAIN pc : LoadFinish(t)
    \/ \E t \in DOMAIN pc : Copy1Filter(t)
    \/ \E t \in DOMAIN pc : Copy2Filter(t)
    \/ \E t \in DOMAIN pc : AggregateA(t)
    \/ \E t \in DOMAIN pc : ExpandRecursos(t)
    \/ \E t \in DOMAIN pc : AggregateB(t)
    \/ \E t \in DOMAIN pc : Done(t)

Spec == Init /\ [][Next]_vars

\* overlapping refreshes: Dash's server runs each callback in a thread of its
\* own, so NumWorkers callbacks interleave statement by statement
ConcResponses ==
    { [kind |-> "ok", body |-> <<ROW_1, ROW_2>>],
      [kind |-> "ok", body |-> <<ROW_3>>],
      [kind |-> "ok", body |-> <<ROW_7>>],
      [kind |-> "ok", body |-> <<>>],
      [kind |-> "http_500", body |-> <<>>] }

ConcFilterStates ==
    { [start_date |-> 1, end_date |-> MaxDay, cobs |-> [isNone |-> TRUE, vals |-> {}]],
      [start_date |-> 1, end_date |-> 1,
       cobs |-> [isNone |-> FALSE, vals |-> {cob_legend["1COB"]}]] }

InitConc == InitWith(1..NumWorkers, {<<ROW_1, ROW_2>>})

NextConc ==
    \/ \E t \in DOMAIN pc : Invoke(t, ConcFilterStates)
    \/ \E t \in DOMAIN pc : LoadFetch(t, ConcResponses)
    \/ \E t \in DOMAIN pc : LoadCoerce(t)
    \/ \E t \in DOMAIN pc : LoadMapCOB(t)
    \/ \E t \in DOMAIN pc : LoadMapPrioridade(t)
    \/ \E t \in DOMAIN pc : LoadTotalVtr(t)
    \/ \E t \in DOMAIN pc : LoadFinish(t)
    \/ \E t \in DOMAIN pc : Copy1Filter(t)
    \/ \E t \in DOMAIN pc : Copy2Filter(t)
    \/ \E t \in DOMAIN pc : AggregateA(t)
    \/ \E t \in DOMAIN pc : ExpandRecursos(t)
    \/ \E t \in DOMAIN pc : AggregateB(t)
    \/ \E t \in DOMAIN pc : Done(t)

SpecConc == InitConc /\ [][NextConc]_vars

\* ============================================================== claims
Workers == DOMAIN pc

\* the callback t holds the filtered table of lines 267-276
HasFiltered(t) ==
    \/ pc[t] \in {"agg_a", "expand", "agg_b"}
    \/ pc[t] = "returned" /\ Len(out[t].ret) = 11
    \/ pc[t] = "raised" /\ out[t].line > 276

\* the callback t is past the indicators of lines 278-322, or raised in them
PastAggregateA(t) == HasFiltered(t) /\ pc[t] # "agg_a"

\* C1: whatever the table and the filter state, once load_data has returned the
\* callback line_graph_1 does not raise and returns exactly 11 outputs.
C1_ElevenOutputs ==
    \A t \in Workers :
        /\ pc[t] = "raised" => out[t].line < 238
        /\ pc[t] = "returned" => Len(out[t].ret) = 11

FetchErrors == {"network_error", "http_500", "malformed_body"}

\* C2: a failed upstream fetch never leaves load_data as an exception, and the
\* global table is then the empty table.
C2_FetchFailureGivesEmptyTable ==
    \A t \in Workers :
        out[t].exc \in FetchErrors => pc[t] # "raised" /\ df.rows = <<>>

IsNormalized(tbl) ==
    tbl.typed /\ {"COB_nome", "Prioridade_nome", "total_vtr"} \subseteq tbl.cols

\* C3: every table a callback copies from the global df and aggregates over is
\* a fully normalized table (it has COB_nome, Prioridade_nome and total_vtr),
\* also when callbacks overlap.
C3_CopyIsNormalized ==
    \A t \in Workers :
        pc[t] \in {"agg_a", "expand", "agg_b"} => IsNormalized(df_filtered[t])

ExpectedLabel(legend, code) ==
    IF code \in DOMAIN legend THEN legend[code] ELSE "Desconhecido"

\* C4: when load_data has returned, every record's COB_nome and Prioridade_nome is the
\* label of its code, and "Desconhecido" for an unknown or absent code; never null.
C4_LabelsNeverNull ==
    \A t \in Workers :
        (pc[t] = "copy1" /\ IsNormalized(df)) =>
            \A i \in DOMAIN df.rows :
                /\ df.rows[i].COB_nome # NaN
                /\ df.rows[i].COB_nome = ExpectedLabel(cob_legend, df.rows[i].COB)
                /\ df.rows[i].Prioridade_nome # NaN
                /\ df.rows[i].Prioridade_nome =
                      ExpectedLabel(priori_legend, df.rows[i].Prioridade)

\* the rows the filter state f is to keep of the normalized table tbl
ExpectedKept(tbl, f) ==
    {i \in DOMAIN tbl.rows :
        /\ (f.start_date # NaT /\ f.end_date # NaT) =>
              /\ tbl.rows[i].data # NaT
              /\ f.start_date <= tbl.rows[i].data
              /\ tbl.rows[i].data <= f.end_date
        /\ (~f.cobs.isNone /\ f.cobs.vals # {}) =>
              tbl.rows[i].COB_nome \in f.cobs.vals}

\* C5: the filter step does not fail and keeps exactly the rows within the
\* inclusive date range when both bounds are given (all rows otherwise, a null
\* date never matching) whose COB_nome is selected when the selection is
\* non-empty.
C5_FilterKeepsExactly ==
    \A t \in Workers :
        /\ ~(pc[t] = "raised" /\ out[t].line >= 238 /\ out[t].line <= 276)
        /\ (pc[t] = "agg_a" /\ IsNormalized(df)) =>
              df_filtered[t].rows =
                  TakeFrom(df.rows, ExpectedKept(df, args[t]), 1)

\* the distinct tokens of the resource lists the upstream rows carry
ExpectedTokens(rec) ==
    CASE rec = RES_AB -> {<<"A">>, <<"B">>}
      [] rec = RES_BC -> {<<"B">>, <<"C">>}
      [] rec = RES_AAB -> {<<"A">>, <<"B">>}
      [] rec = RES_V1V1 -> {<<"V", "1">>}
      [] rec = RES_EMPTY -> {}
      [] rec = NoneStr -> {}

\* C6: when load_data has returned, total_vtr is the number of distinct tokens
\* of recursos_empenhados, 0 when the field is empty or absent, and such a
\* record does not make the normalization fail.
C6_TotalVtrDistinctOrZero ==
    \A t \in Workers :
        /\ ~(pc[t] = "raised" /\ out[t].line = 73)
        /\ (pc[t] = "copy1" /\ IsNormalized(df)) =>
              \A i \in DOMAIN df.rows :
                  df.rows[i].total_vtr =
                      Cardinality(ExpectedTokens(df.rows[i].recursos_empenhados))

NoPriorityOne(rows) == \A i \in DOMAIN rows : rows[i].Prioridade # "1"

\* C7: when the filtered table has no priority-"1" row, indicators 1 and 4 are
\* computed, without raising, as leader "-", value 0, mean 0.
C7_NoPriorityOneGivesSentinel ==
    \A t \in Workers :
        (PastAggregateA(t) /\ NoPriorityOne(df_filtered[t].rows)) =>
            /\ {"i1", "i4"} \subseteq DOMAIN out[t]
            /\ out[t].i1 = Sentinel
            /\ out[t].i4 = Sentinel

C9_FilterLeavesBaseUnchanged ==
    [][\A t \in Workers :
          (pc[t] \in {"copy1", "copy2", "agg_a", "expand", "agg_b"} /\ pc'[t] # pc[t])
              => df' = df]_vars

\* a callback has returned its figures over a filtered table that lost rows,
\* and df still holds every row
C9_Witness ==
    \E t \in Workers :
        /\ pc[t] = "returned"
        /\ Len(out[t].ret) = 11
        /\ Len(df_filtered[t].rows) < Len(df.rows)
        /\ IsNormalized(df)

\* the groups of rows by col: the keys present; rows with a null key form none
ClaimKeys(rows, col) == {rows[i][col] : i \in DOMAIN rows} \ {NaN}

KeyPos(k) == CHOOSE j \in DOMAIN SortedKeys : SortedKeys[j] = k

RowCount(rows, col, k) == Cardinality({i \in DOMAIN rows : rows[i][col] = k})

VtrSum(rows, col, k) ==
    SumSeq([i \in DOMAIN rows |-> IF rows[i][col] = k THEN rows[i].total_vtr ELSE 0])

SumOver(keys, M(_)) ==
    SumSeq([j \in DOMAIN SortedKeys |->
              IF SortedKeys[j] \in keys THEN M(SortedKeys[j]) ELSE 0])

\* ind reports the first group of maximal metric M, and the mean of M over the groups
LeaderIsFirstMax(ind, keys, M(_)) ==
    /\ ind.leader \in keys
    /\ ind.value = M(ind.leader)
    /\ \A k \in keys : M(k) <= ind.value
    /\ \A k \in keys : M(k) = ind.value => KeyPos(ind.leader) <= KeyPos(k)
    /\ ind.mean = [num |-> SumOver(keys, M), den |-> Cardinality(keys)]

\* C10: over a non-empty filtered table, each grouped indicator 2, 3, 5 and 6
\* (and 1 and 4 when priority-1 rows exist) reports the first group of maximal
\* metric and the mean of the metric over the observed groups.
C10_LeaderIsFirstMax ==
    \A t \in Workers :
        LET rows == df_filtered[t].rows
            p1 == PriorityOne(rows)
            o == out[t]
        IN  (pc[t] = "returned" /\ Len(o.ret) = 11 /\ rows # <<>>) =>
              /\ LeaderIsFirstMax(o.i2, ClaimKeys(rows, "municipio"),
                                  LAMBDA k : RowCount(rows, "municipio", k))
              /\ LeaderIsFirstMax(o.i3, ClaimKeys(rows, "UNIDADE"),
                                  LAMBDA k : RowCount(rows, "UNIDADE", k))
              /\ LeaderIsFirstMax(o.i5, ClaimKeys(rows, "UNIDADE"),
                                  LAMBDA k : VtrSum(rows, "UNIDADE", k))
              /\ LeaderIsFirstMax(o.i6, ClaimKeys(rows, "Natureza"),
                                  LAMBDA k : RowCount(rows, "Natureza", k))
              /\ p1 # <<>> =>
                    /\ LeaderIsFirstMax(o.i1, ClaimKeys(p1, "COB_nome"),
                                        LAMBDA k : RowCount(p1, "COB_nome", k))
                    /\ LeaderIsFirstMax(o.i4, ClaimKeys(p1, "UNIDADE"),
                                        LAMBDA k : RowCount(p1, "UNIDADE", k))

\* the load_data(True) call of callback t is over: it returned or it raised
LoadOver(t) ==
    pc[t] \notin {"idle", "load_fetch", "load_coerce", "load_cob", "load_prio",
                  "load_vtr", "load_end"}

\* C11: every invocation of line_graph_1 fetches anew (data_loaded does not
\* matter), and once its load_data call is over the global table is the
\* normalization of the response it fetched and of nothing else, so the same
\* upstream data always leave the same table.
C11_RefreshReloadsWholeTable ==
    \A t \in Workers :
        /\ pc[t] \notin {"idle", "load_fetch"} => response[t] # NoResponse
        /\ LoadOver(t) => df = Normalized(response[t].body)
====
